---- MODULE Spec2Model ----
(***************************************************************************)
(* The staticx bootloader (src/bootloader/main.c) as a state machine.      *)
(*                                                                         *)
(* Three specifications share the definitions below:                       *)
(*   Spec      - one run of main(): tmpdir, extraction, patching, fork,    *)
(*               signal forwarding, wait, cleanup, exit translation;       *)
(*   SpecPatch - patch_prog_paths() applied to a bounded set of target     *)
(*               images and replacement strings;                           *)
(*   SpecXz    - xz_read() driven by a sequence of pull requests.          *)
(*                                                                         *)
(* An ELF image is a record.  Its byte area `bytes` holds the bytes that   *)
(* set_interp and set_rpath read and write (offset o is bytes[o + 1]); the *)
(* typed overlays (Elf_Ehdr, the Elf_Phdr table, the Elf_Shdr table with   *)
(* the section names already resolved through the section string table,    *)
(* and the Elf_Dyn entries stored at the .dynamic section) are kept as     *)
(* records and sequences of records.  File offsets that index the byte     *)
(* area (p_offset, .dynstr sh_offset, d_val) are kept as numbers and may    *)
(* lie outside the image: the source does not know the image length.       *)
(***************************************************************************)
EXTENDS Integers, Sequences, FiniteSets, TLC

(***************************************************************************)
(* Bounds of the model.                                                    *)
(***************************************************************************)
ImgLen == 4
MaxNew == 1
MaxFilesz == 2
MaxDynstrOff == 1
MaxDynstrSz == 2
MaxBeyond == 1
MaxSends == 2
MaxInitNonDefault == 1
MaxD == 3
MaxReq == 2
MaxIn == 2
MaxDyn == 3
MaxArgc == 3

(***************************************************************************)
(* Program constants.                                                      *)
(***************************************************************************)
SIGHUP == 1
SIGINT == 2
SIGKILL == 9
SIGSEGV == 11
SIGTERM == 15
PT_LOAD == 1
PT_INTERP == 3
DT_NULL == 0
DT_NEEDED == 1
DT_RPATH == 15
SizeofPhdr == 56
SizeofShdr == 64
SizeofDyn == 16
SHT_NOT_USED == 0
SHT_PROGBITS == 1
SHT_STRTAB == 3
SHT_DYNAMIC == 6
SizeMax == 2147483647
XZ_FAKE_FD == 42
ChildPid == 7
LauncherFailure == 2
ExecFailure == 3

ELFMAG == <<127, 69, 76, 70>>
ARCHIVE_SECTION == ".staticx.archive"
NullName == "<NULL>"
NUL == 0
Byte == 0..2

(***************************************************************************)
(* Binary image view.                                                      *)
(***************************************************************************)
InImage(b, off) == off >= 0 /\ off < Len(b)

ByteAt(b, off) == b[off + 1]

\* elf_is_valid: the four magic bytes, one by one
elf_is_valid(ehdr) ==
    /\ ehdr.e_ident[1] = ELFMAG[1]
    /\ ehdr.e_ident[2] = ELFMAG[2]
    /\ ehdr.e_ident[3] = ELFMAG[3]
    /\ ehdr.e_ident[4] = ELFMAG[4]

RECURSIVE PhdrScan(_, _, _)
PhdrScan(tab, ptype, i) ==
    IF i > Len(tab) THEN 0
    ELSE IF tab[i].p_type = ptype THEN i
    ELSE PhdrScan(tab, ptype, i + 1)

\* elf_get_proghdr_by_type: the entry-size check is fatal; otherwise the index
\* of the first entry of the type, 0 for NULL
elf_get_proghdr_by_type(ehdr, ptype) ==
    IF ehdr.e_phentsize # SizeofPhdr
    THEN [fatal |-> TRUE, idx |-> 0]
    ELSE [fatal |-> FALSE, idx |-> PhdrScan(ehdr.phdrs, ptype, 1)]

RECURSIVE ShdrScan(_, _, _, _)
ShdrScan(tab, lookup_name, lookup_type, i) ==
    IF i > Len(tab) THEN 0
    ELSE IF lookup_name # NullName /\ tab[i].name = lookup_name THEN i
    ELSE IF lookup_type # SHT_NOT_USED /\ tab[i].sh_type = lookup_type THEN i
    ELSE ShdrScan(tab, lookup_name, lookup_type, i + 1)

\* elf_get_section: as above for sections, by name or by type
elf_get_section(ehdr, lookup_name, lookup_type) ==
    IF ehdr.e_shentsize # SizeofShdr
    THEN [fatal |-> TRUE, idx |-> 0]
    ELSE [fatal |-> FALSE, idx |-> ShdrScan(ehdr.shdrs, lookup_name, lookup_type, 1)]

elf_get_section_by_name(ehdr, lookup_name) ==
    elf_get_section(ehdr, lookup_name, SHT_NOT_USED)

(***************************************************************************)
(* C strings in the byte area.                                             *)
(***************************************************************************)
\* size_t subtraction n - 1: wraps to SIZE_MAX at n = 0
SizeSubOne(n) == IF n = 0 THEN SizeMax ELSE n - 1

RECURSIVE NulDistance(_, _)
\* number of non-NUL bytes from off to the first NUL, or -1 when the bytes run
\* to the end of the image without a NUL
NulDistance(b, off) ==
    IF ~InImage(b, off) THEN -1
    ELSE IF ByteAt(b, off) = NUL THEN 0
    ELSE LET r == NulDistance(b, off + 1) IN IF r < 0 THEN -1 ELSE r + 1

\* strlen(b + off): the lengths the call can return, and whether it read
\* outside the image (then what lies beyond decides: any length from the
\* bytes inside the image onward, or a fault)
strlen(b, off) ==
    IF off >= 0 /\ NulDistance(b, off) >= 0
    THEN {[len |-> NulDistance(b, off), oob |-> FALSE, fault |-> FALSE]}
    ELSE LET inside == IF off >= 0 /\ off < Len(b) THEN Len(b) - off ELSE 0
         IN  {[len |-> inside + k, oob |-> TRUE, fault |-> FALSE] : k \in 0..MaxBeyond}
             \cup {[len |-> 0, oob |-> TRUE, fault |-> TRUE]}

\* the offsets strcpy(b + off, s) writes: the bytes of s and the NUL
StrcpyRange(off, s) == off..(off + Len(s))

\* a faulty strcpy that leaves out the terminating NUL
strcpy_NoNul(b, off, s) ==
    [i \in 1..Len(b) |->
        IF (i - 1) \in off..(off + Len(s) - 1) THEN s[i - off] ELSE b[i]]

\* the byte area after strcpy(b + off, s); writes outside the image do not
\* land in it
strcpy(b, off, s) ==
    [i \in 1..Len(b) |->
        IF (i - 1) \in StrcpyRange(off, s)
        THEN IF i - 1 - off < Len(s) THEN s[i - off] ELSE NUL
        ELSE b[i]]

\* the C string read back at off: the bytes up to the first NUL (the whole
\* rest of the image when there is none)
RECURSIVE ReadStr(_, _)
ReadStr(b, off) ==
    IF ~InImage(b, off) \/ ByteAt(b, off) = NUL THEN <<>>
    ELSE <<ByteAt(b, off)>> \o ReadStr(b, off + 1)

(***************************************************************************)
(* ELF patcher: set_interp and set_rpath as the set of outcomes a call can *)
(* have on an image.  An outcome is                                        *)
(*   st    "ok" (returned), "fatal" (error(2, ...)), "segv" (faulted)      *)
(*   bytes the byte area when the call ended                               *)
(*   wr    the offsets the call wrote                                      *)
(*   oob   whether it read or wrote outside the image                      *)
(*   msg   the message of the fatal error                                  *)
(* An access outside the image is undefined: the call faults, or goes on   *)
(* with whatever lies there.                                               *)
(***************************************************************************)
Outcome(st, b, wr, o, msg) ==
    [st |-> st, bytes |-> b, wr |-> wr, oob |-> o, msg |-> msg]

\* strcpy(b + off, s) as outcomes: it faults at the first byte outside the
\* image, after writing the ones inside, or writes through
StrcpyOutcomes(b, off, s, o) ==
    IF \A w \in StrcpyRange(off, s) : InImage(b, w)
    THEN {Outcome("ok", strcpy(b, off, s), StrcpyRange(off, s), o, "")}
    ELSE {Outcome("ok", strcpy(b, off, s), StrcpyRange(off, s), TRUE, ""),
          Outcome("segv", strcpy(b, off, s),
                  {w \in StrcpyRange(off, s) : InImage(b, w)}, TRUE, "")}

\* a faulty interp_write that copies before it checks the capacity
interp_write_CopyFirst(b, interp, interp_size, new_interp_, o) ==
    IF Len(new_interp_) > SizeSubOne(interp_size)
    THEN {Outcome("fatal", strcpy(b, interp, new_interp_),
                  StrcpyRange(interp, new_interp_), o, "Current INTERP too small")}
    ELSE StrcpyOutcomes(b, interp, new_interp_, o)

\* set_interp, lines 304-307: the capacity check, then the copy
interp_write(b, interp, interp_size, new_interp_, o) ==
    IF Len(new_interp_) > SizeSubOne(interp_size)
    THEN {Outcome("fatal", b, {}, o, "Current INTERP too small")}
    ELSE StrcpyOutcomes(b, interp, new_interp_, o)

set_interp(ehdr, new_interp_) ==
    LET b == ehdr.bytes
        r == elf_get_proghdr_by_type(ehdr, PT_INTERP)
    IN  IF r.fatal
        THEN {Outcome("fatal", b, {}, FALSE, "ELF file disagrees with program header size")}
        ELSE IF r.idx = 0
        THEN {Outcome("fatal", b, {}, FALSE, "Failed to find PT_INTERP header")}
        ELSE LET ph == ehdr.phdrs[r.idx]
                 interp == ph.p_offset
                 interp_size == ph.p_filesz
                 last == interp + interp_size - 1
                 lastOob == ~InImage(b, last)
                 lastVals == IF lastOob THEN Byte ELSE {ByteAt(b, last)}
             IN  (IF lastOob THEN {Outcome("segv", b, {}, TRUE, "")} ELSE {})
                 \cup UNION {
                     IF v # NUL
                     THEN {Outcome("fatal", b, {}, lastOob, "Current INTERP not NUL terminated")}
                     ELSE interp_write(b, interp, interp_size, new_interp_, lastOob)
                     : v \in lastVals}

DynEntry == [d_tag : {DT_NULL, DT_NEEDED, DT_RPATH}, d_val : 0..MaxDynstrSz]

\* the entries the loop can see: those of the file and, past its end,
\* whatever lies there
DynViews(tab, ndyn) ==
    IF ndyn <= Len(tab) THEN {tab}
    ELSE {tab \o g : g \in [1..(ndyn - Len(tab)) -> DynEntry]}

RECURSIVE DynScan_PastNull(_, _, _, _)
\* a faulty loop that does not stop at DT_NULL
DynScan_PastNull(tab, ndyn, i, dt_rpath) ==
    IF i > ndyn \/ i > Len(tab) THEN dt_rpath
    ELSE IF tab[i].d_tag = DT_RPATH THEN DynScan_PastNull(tab, ndyn, i + 1, i)
    ELSE DynScan_PastNull(tab, ndyn, i + 1, dt_rpath)

RECURSIVE DynScan(_, _, _, _)
\* the for loop over the dynamic table: stops at DT_NULL, keeps the last
\* DT_RPATH seen; 0 for NULL
DynScan(tab, ndyn, i, dt_rpath) ==
    IF i > ndyn THEN dt_rpath
    ELSE IF tab[i].d_tag = DT_NULL THEN dt_rpath
    ELSE IF tab[i].d_tag = DT_RPATH THEN DynScan(tab, ndyn, i + 1, i)
    ELSE DynScan(tab, ndyn, i + 1, dt_rpath)

RECURSIVE DynExamined(_, _, _)
\* how many entries the loop reads
DynExamined(tab, ndyn, i) ==
    IF i > ndyn THEN ndyn
    ELSE IF tab[i].d_tag = DT_NULL THEN i
    ELSE DynExamined(tab, ndyn, i + 1)

\* set_rpath, lines 386-389: the capacity check against the old string's
\* length len, then the copy
rpath_write(b, rpath, len, new_rpath_, o) ==
    IF Len(new_rpath_) > len
    THEN {Outcome("fatal", b, {}, o, "Current RPATH too small")}
    ELSE StrcpyOutcomes(b, rpath, new_rpath_, o)

\* set_rpath from "Find RPATH" on, for one view of the dynamic table
set_rpath_tail(b, tab, ndyn, dynstrtab, dynstrsz, new_rpath_, o) ==
    LET dt_rpath == DynScan(tab, ndyn, 1, 0)
    IN  IF dt_rpath = 0
        THEN {Outcome("fatal", b, {}, o, "Couldn't find DT_RPATH tag")}
        ELSE IF tab[dt_rpath].d_val > dynstrsz
        THEN {Outcome("fatal", b, {}, o, "RPATH outside of dynamic strtab!")}
        ELSE LET rpath == dynstrtab + tab[dt_rpath].d_val
             IN  UNION {
                     IF l.fault THEN {Outcome("segv", b, {}, TRUE, "")}
                     ELSE rpath_write(b, rpath, l.len, new_rpath_, o \/ l.oob)
                     : l \in strlen(b, rpath)}

set_rpath(ehdr, new_rpath_) ==
    LET b == ehdr.bytes
        d == elf_get_section_by_name(ehdr, ".dynamic")
        s == elf_get_section_by_name(ehdr, ".dynstr")
    IN  IF d.fatal
        THEN {Outcome("fatal", b, {}, FALSE, "ELF file disagrees with section size")}
        ELSE IF d.idx = 0
        THEN {Outcome("fatal", b, {}, FALSE, "Failed to find .dynamic section")}
        ELSE IF s.idx = 0
        THEN {Outcome("fatal", b, {}, FALSE, "Failed to find .dynamic section")}
        ELSE LET ndyn == ehdr.shdrs[d.idx].sh_size \div SizeofDyn
                 dynstrtab == ehdr.shdrs[s.idx].sh_offset
                 dynstrsz == ehdr.shdrs[s.idx].sh_size
             IN  UNION {
                     LET o == DynExamined(tab, ndyn, 1) > Len(ehdr.dyn)
                     IN  (IF o THEN {Outcome("segv", b, {}, TRUE, "")} ELSE {})
                         \cup set_rpath_tail(b, tab, ndyn, dynstrtab, dynstrsz,
                                             new_rpath_, o)
                     : tab \in DynViews(ehdr.dyn, ndyn)}

(***************************************************************************)
(* Wait status: the kernel's encoding and the <sys/wait.h> macros main     *)
(* decodes it with.                                                        *)
(***************************************************************************)
W_EXITCODE(ret, sig) == (ret % 256) * 256 + sig

WIFEXITED(w) == (w % 128) = 0

\* a faulty WEXITSTATUS that keeps seven bits of the code
WEXITSTATUS_SevenBits(w) == (w \div 256) % 128

WEXITSTATUS(w) == (w \div 256) % 256

WTERMSIG(w) == w % 128

\* ((signed char)((w & 0x7f) + 1) >> 1) > 0
WIFSIGNALED(w) ==
    LET t == (w % 128) + 1
        sc == IF t >= 128 THEN t - 256 ELSE t
    IN  (sc \div 2) > 0

(***************************************************************************)
(* Paths.  Strings are sequences of character codes.                       *)
(***************************************************************************)
Fill(n, v) == [i \in 1..n |-> v]

\* "/tmp/staticx-XXXXXX" with the six X replaced by mkdtemp
HomeDir == <<47, 116, 109, 112, 47, 115, 116, 97, 116, 105, 99, 120, 45>> \o Fill(6, 65)

\* ".staticx.interp"
INTERP_FILENAME ==
    <<46, 115, 116, 97, 116, 105, 99, 120, 46, 105, 110, 116, 101, 114, 112>>

\* asprintf("%s/%s", p1, p2)
path_join(p1, p2) == p1 \o <<47>> \o p2

(***************************************************************************)
(* State.                                                                  *)
(***************************************************************************)
VARIABLES
    pc,           \* where the launcher is in main(); "done" once it ended
    term,         \* how the launcher ended: kind "none" | "exit" | "signal"
    errmsg,       \* the message of the error() call that ended it
    tmpdir,       \* the ephemeral directory: "none" | "exists" | "removed"
    removeCalls,  \* number of remove_tree calls
    selfMap,      \* mapping of /proc/self/exe: "unmapped" | "mapped" | "released"
    progMap,      \* mapping of the target: "unmapped" | "mapped" | "released"
    tarSt,        \* the TAR handle: "none" | "open" | "extracted" | "closed"
    self,         \* the launcher's own image
    tgt,          \* the target image (bytes patched in place)
    tgt0,         \* the target image as extracted
    new_interp,   \* patch_prog_paths arguments
    new_rpath,
    patched,      \* which of set_interp / set_rpath have returned
    written,      \* offsets of the target written so far
    oob,          \* an access outside the target image has happened
    child,        \* "none" | "born" | "running" | "zombie" | "reaped"
    child_pid,    \* the static child_pid
    cterm,        \* how the child ended: kind "none" | "exit" | "signal"
    cdisp,        \* the child's signal dispositions, inherited at fork
    execd,        \* the child's execv: "none" | "ok" | "failed"
    wstatus,      \* run_app's wstatus
    wret,         \* "eintr" when the blocked waitpid was interrupted
    disp,         \* the launcher's signal dispositions
    blocked,      \* the launcher's signal mask
    sigchld_ign,  \* SIGCHLD inherited as SIG_IGN
    pending,      \* signals pending for the launcher
    nsent,        \* signals sent to the launcher so far
    kills,        \* the kill(pid, sig) calls sig_handler made
    xD,           \* xz: the decompressed content of the stream
    xpos,         \* xz: how much of it the decoder has produced
    xend,         \* xz: the decoder has returned XZ_STREAM_END
    xstall,       \* xz: the decoder's last run made no progress
    xin,          \* xz: compressed input the decoder has not consumed yet
    xpc,          \* xz: "closed" | "idle" | "run" | "shut"
    out,          \* m_xzbuf.out: the caller's buffer
    out_pos,      \* m_xzbuf.out_pos
    out_size,     \* m_xzbuf.out_size
    xret,         \* xz: what the last xz_read returned (-1: none yet)
    delivered,    \* xz: the bytes the calls so far reported as read
    sawEof,       \* xz: a call has returned 0
    orig_argc,    \* make_argv: the launcher's argc
    orig_argv,    \* make_argv: the launcher's argv[0..argc-1]
    new_argv,     \* make_argv: the calloc'ed vector argv (empty: not allocated)
    alloc_null,   \* make_argv: calloc returned NULL
    av_len,       \* make_argv: int len
    av_w,         \* make_argv: int w
    av_i,         \* make_argv: the loop's int i
    beyond,       \* make_argv: slots written outside the allocation
    mpc           \* make_argv: position in the function

procv == <<pc, term, errmsg>>
resv == <<tmpdir, removeCalls, selfMap, progMap, tarSt>>
imgv == <<self, tgt, tgt0, new_interp, new_rpath>>
patchv == <<patched, written, oob>>
childv == <<child, child_pid, cterm, cdisp, execd, wstatus, wret>>
sigv == <<disp, blocked, sigchld_ign, pending, nsent, kills>>
xzv == <<xD, xpos, xend, xstall, xin, xpc, out, out_pos, out_size, xret, delivered, sawEof>>
argvv == <<orig_argc, orig_argv, new_argv, alloc_null, av_len, av_w, av_i, beyond, mpc>>
vars == <<procv, resv, imgv, patchv, childv, sigv, xzv, argvv>>

CatchSigs == {SIGHUP, SIGINT, SIGTERM}
FwdSigs == {SIGINT, SIGTERM}
KillSigs == {SIGHUP, SIGINT, SIGKILL, SIGTERM}
\* the exit codes the target is run with: the ends of the range, the launcher's
\* own two codes and two ordinary ones
ExitCodes == {0, 1, LauncherFailure, ExecFailure, 42, 255}

NoTerm == [kind |-> "none", val |-> 0, how |-> ""]

\* error(status, 0, msg): the whole process exits with status
error(status, msg) ==
    /\ pc' = "done"
    /\ term' = [kind |-> "exit", val |-> status, how |-> "error"]
    /\ errmsg' = msg

\* a fault: the process dies of SIGSEGV
Fault ==
    /\ pc' = "done"
    /\ term' = [kind |-> "signal", val |-> SIGSEGV, how |-> "fault"]
    /\ errmsg' = errmsg

Goto(next) ==
    /\ pc' = next
    /\ UNCHANGED <<term, errmsg>>

\* the launcher runs its own code only when no deliverable signal is pending
Runs(at) == pc = at /\ pending \ blocked = {}

(***************************************************************************)
(* main(), up to the fork.                                                 *)
(***************************************************************************)
\* create_tmpdir: mkdtemp
create_tmpdir ==
    /\ Runs("create_tmpdir")
    /\ \/ /\ tmpdir' = "exists"
          /\ Goto("extract_map")
       \/ /\ error(2, "Failed to create tempdir")
          /\ UNCHANGED tmpdir
    /\ UNCHANGED <<removeCalls, selfMap, progMap, tarSt, imgv, patchv, childv, sigv, xzv, argvv>>

\* extract_archive, lines 246-267: map the launcher, find the archive section
extract_map ==
    /\ Runs("extract_map")
    /\ selfMap' = "mapped"
    /\ IF ~elf_is_valid(self)
       THEN error(2, "Invalid ELF header")
       ELSE LET shdr == elf_get_section_by_name(self, ARCHIVE_SECTION)
            IN  IF shdr.fatal THEN error(2, "ELF file disagrees with section size")
                ELSE IF shdr.idx = 0
                THEN error(2, "Failed to find .staticx.archive section")
                ELSE Goto("tar_open")
    /\ UNCHANGED <<tmpdir, removeCalls, progMap, tarSt, imgv, patchv, childv, sigv, xzv, argvv>>

\* tar_open, which calls xz_open
tar_open ==
    /\ Runs("tar_open")
    /\ \/ /\ tarSt' = "open"
          /\ Goto("tar_extract_all")
       \/ /\ error(2, "Failed to initialize xz decoder")
          /\ UNCHANGED tarSt
       \/ /\ error(2, "tar_open() failed")
          /\ UNCHANGED tarSt
    /\ UNCHANGED <<tmpdir, removeCalls, selfMap, progMap, imgv, patchv, childv, sigv, xzv, argvv>>

\* tar_extract_all, which pulls the archive through xz_read
tar_extract_all ==
    /\ Runs("tar_extract_all")
    /\ \/ /\ tarSt' = "extracted"
          /\ Goto("tar_close")
       \/ /\ error(2, "xz_dec_run returned")
          /\ UNCHANGED tarSt
       \/ /\ error(2, "tar_extract_all() failed")
          /\ UNCHANGED tarSt
    /\ UNCHANGED <<tmpdir, removeCalls, selfMap, progMap, imgv, patchv, childv, sigv, xzv, argvv>>

\* tar_close, which calls xz_close
tar_close ==
    /\ Runs("tar_close")
    /\ \/ /\ tarSt' = "closed"
          /\ Goto("unmap_self")
       \/ /\ error(2, "tar_close() failed")
          /\ UNCHANGED tarSt
    /\ UNCHANGED <<tmpdir, removeCalls, selfMap, progMap, imgv, patchv, childv, sigv, xzv, argvv>>

\* unmap_file(map) at the end of extract_archive
unmap_self ==
    /\ Runs("unmap_self")
    /\ selfMap' = "released"
    /\ Goto("patch_map")
    /\ UNCHANGED <<tmpdir, removeCalls, progMap, tarSt, imgv, patchv, childv, sigv, xzv, argvv>>

\* main's and patch_app's path_join, then patch_prog_paths up to set_interp
patch_map ==
    /\ Runs("patch_map")
    /\ \/ /\ progMap' = "mapped"
          /\ IF ~elf_is_valid(tgt)
             THEN error(2, "Invalid ELF header")
             ELSE Goto("set_interp")
       \/ /\ error(2, "Failed to allocate path string")
          /\ UNCHANGED progMap
    /\ UNCHANGED <<tmpdir, removeCalls, selfMap, tarSt, imgv, patchv, childv, sigv, xzv, argvv>>

\* a faulty Apply that goes on after a fatal outcome
Apply_IgnoreFatal(o, what, next) ==
    /\ tgt' = [tgt EXCEPT !.bytes = o.bytes]
    /\ written' = written \cup o.wr
    /\ oob' = (oob \/ o.oob)
    /\ IF o.st = "segv"
       THEN Fault /\ UNCHANGED patched
       ELSE Goto(next) /\ patched' = patched \cup {what}

\* what a call of set_interp or set_rpath with outcome o does to the process
Apply(o, what, next) ==
    /\ tgt' = [tgt EXCEPT !.bytes = o.bytes]
    /\ written' = written \cup o.wr
    /\ oob' = (oob \/ o.oob)
    /\ CASE o.st = "ok" -> Goto(next) /\ patched' = patched \cup {what}
         [] o.st = "fatal" -> error(2, o.msg) /\ UNCHANGED patched
         [] OTHER -> Fault /\ UNCHANGED patched

SetInterp ==
    /\ Runs("set_interp")
    /\ \E o \in set_interp(tgt, new_interp) : Apply(o, "interp", "set_rpath")
    /\ UNCHANGED <<resv, self, tgt0, new_interp, new_rpath, childv, sigv, xzv, argvv>>

SetRpath ==
    /\ Runs("set_rpath")
    /\ \E o \in set_rpath(tgt, new_rpath) : Apply(o, "rpath", "patch_unmap")
    /\ UNCHANGED <<resv, self, tgt0, new_interp, new_rpath, childv, sigv, xzv, argvv>>

\* unmap_file(map) at the end of patch_prog_paths
patch_unmap ==
    /\ Runs("patch_unmap")
    /\ progMap' = "released"
    /\ Goto("fork")
    /\ UNCHANGED <<tmpdir, removeCalls, selfMap, tarSt, imgv, patchv, childv, sigv, xzv, argvv>>

(***************************************************************************)
(* run_app.                                                                *)
(***************************************************************************)
\* lines 495-508: make_argv and fork
Fork ==
    /\ Runs("fork")
    /\ \/ /\ child' = "born"
          /\ child_pid' = ChildPid
          /\ cdisp' = disp
          /\ Goto("setup_sigint")
          /\ UNCHANGED execd
       \/ /\ child_pid' = -1
          /\ error(2, "Failed to fork child process")
          /\ UNCHANGED <<child, cdisp, execd>>
    /\ UNCHANGED <<resv, imgv, patchv, cterm, wstatus, wret, sigv, xzv, argvv>>

\* setup_sig_handler(signum): sigaction with sa_handler = sig_handler
setup_sig_handler(signum, at, next) ==
    /\ Runs(at)
    /\ disp' = [disp EXCEPT ![signum] = "handler"]
    /\ Goto(next)
    /\ UNCHANGED <<resv, imgv, patchv, childv, blocked, sigchld_ign, pending, nsent, kills, xzv, argvv>>

\* a faulty restore_sig_handler that leaves the disposition as it is
restore_sig_handler_Noop(signum, at, next) ==
    /\ Runs(at)
    /\ Goto(next)
    /\ UNCHANGED <<resv, imgv, patchv, childv, sigv, xzv, argvv>>

\* restore_sig_handler(signum): sigaction with sa_handler = SIG_DFL
restore_sig_handler(signum, at, next) ==
    /\ Runs(at)
    /\ disp' = [disp EXCEPT ![signum] = "dfl"]
    /\ Goto(next)
    /\ UNCHANGED <<resv, imgv, patchv, childv, blocked, sigchld_ign, pending, nsent, kills, xzv, argvv>>

\* the status waitpid stores for a child that ended as ct
StatusOf(ct) ==
    IF ct.kind = "exit" THEN W_EXITCODE(ct.val, 0) ELSE W_EXITCODE(0, ct.val)

\* waitpid(child_pid, &wstatus, 0) returns the pid
WaitReap ==
    /\ Runs("wait")
    /\ wret = "none"
    /\ child = "zombie"
    /\ ~sigchld_ign
    /\ wstatus' = StatusOf(cterm)
    /\ child' = "reaped"
    /\ Goto("clear_pid")
    /\ UNCHANGED <<resv, imgv, patchv, child_pid, cterm, cdisp, execd, wret, sigv, xzv, argvv>>

\* a faulty loop that returns on EINTR
WaitEintr_Returns ==
    /\ Runs("wait")
    /\ wret = "eintr"
    /\ wret' = "none"
    /\ Goto("clear_pid")
    /\ UNCHANGED <<resv, imgv, patchv, child, child_pid, cterm, cdisp, execd, wstatus, sigv, xzv, argvv>>

\* waitpid returned -1 with EINTR: continue
WaitEintr ==
    /\ Runs("wait")
    /\ wret = "eintr"
    /\ wret' = "none"
    /\ Goto("wait")
    /\ UNCHANGED <<resv, imgv, patchv, child, child_pid, cterm, cdisp, execd, wstatus, sigv, xzv, argvv>>

\* waitpid returned -1 with another errno: with SIGCHLD ignored the child is
\* never a zombie and waitpid ends with ECHILD once it is gone
WaitFail ==
    /\ Runs("wait")
    /\ wret = "none"
    /\ child = "zombie"
    /\ sigchld_ign
    /\ error(2, "Failed to wait for child process")
    /\ UNCHANGED <<resv, imgv, patchv, childv, sigv, xzv, argvv>>

\* line 536
ClearChildPid ==
    /\ Runs("clear_pid")
    /\ child_pid' = 0
    /\ Goto("restore_sigint")
    /\ UNCHANGED <<resv, imgv, patchv, child, cterm, cdisp, execd, wstatus, wret, sigv, xzv, argvv>>

(***************************************************************************)
(* The child: lines 511-519, then the target.                              *)
(***************************************************************************)
\* a faulty child that ends a failed execv with the launcher's own code
ChildExecv_ExitsTwo ==
    /\ pc # "done"
    /\ child = "born"
    /\ \/ /\ child' = "running"
          /\ execd' = "ok"
          /\ UNCHANGED cterm
       \/ /\ child' = "zombie"
          /\ execd' = "failed"
          /\ cterm' = [kind |-> "exit", val |-> LauncherFailure]
    /\ UNCHANGED <<procv, resv, imgv, patchv, child_pid, cdisp, wstatus, wret, sigv, xzv, argvv>>

\* execv(new_argv[0], new_argv), and on its failure _exit(3)
ChildExecv ==
    /\ pc # "done"
    /\ child = "born"
    /\ \/ /\ child' = "running"
          /\ execd' = "ok"
          /\ UNCHANGED cterm
       \/ /\ child' = "zombie"
          /\ execd' = "failed"
          /\ cterm' = [kind |-> "exit", val |-> ExecFailure]
    /\ UNCHANGED <<procv, resv, imgv, patchv, child_pid, cdisp, wstatus, wret, sigv, xzv, argvv>>

ChildExit ==
    /\ pc # "done"
    /\ child = "running"
    /\ \E c \in ExitCodes :
          cterm' = [kind |-> "exit", val |-> c]
    /\ child' = "zombie"
    /\ UNCHANGED <<procv, resv, imgv, patchv, child_pid, cdisp, execd, wstatus, wret, sigv, xzv, argvv>>

\* the child dies of a signal: before execv with the inherited dispositions,
\* after it with the target's
ChildKilled ==
    /\ pc # "done"
    /\ child \in {"born", "running"}
    /\ \E s \in KillSigs :
          /\ (child = "born" /\ s \in CatchSigs) => cdisp[s] = "dfl"
          /\ cterm' = [kind |-> "signal", val |-> s]
    /\ child' = "zombie"
    /\ UNCHANGED <<procv, resv, imgv, patchv, child_pid, cdisp, execd, wstatus, wret, sigv, xzv, argvv>>

(***************************************************************************)
(* Signals to the launcher.                                                *)
(***************************************************************************)
SendSignal ==
    /\ pc # "done"
    /\ nsent < MaxSends
    /\ \E s \in FwdSigs :
          /\ s \notin pending
          /\ pending' = pending \cup {s}
    /\ nsent' = nsent + 1
    /\ UNCHANGED <<procv, resv, imgv, patchv, childv, disp, blocked, sigchld_ign, kills, xzv, argvv>>

\* sig_handler(signum): kill(child_pid, signum).  kill(0, signum) signals the
\* caller's process group, the launcher included; signum is blocked while its
\* handler runs, so it is pending again when the handler returns
sig_handler(signum) ==
    /\ kills' = kills \cup {<<child_pid, signum>>}
    /\ pending' = IF child_pid = 0 THEN pending ELSE pending \ {signum}
    /\ wret' = IF pc = "wait" /\ child \in {"born", "running"} THEN "eintr" ELSE wret

DeliverSignal ==
    /\ pc # "done"
    /\ \E s \in pending \ blocked :
          CASE disp[s] = "handler" ->
                  /\ sig_handler(s)
                  /\ UNCHANGED procv
            [] disp[s] = "ign" ->
                  /\ pending' = pending \ {s}
                  /\ UNCHANGED <<procv, kills, wret>>
            [] OTHER ->
                  /\ pending' = pending \ {s}
                  /\ pc' = "done"
                  /\ term' = [kind |-> "signal", val |-> s, how |-> "delivered"]
                  /\ UNCHANGED <<errmsg, kills, wret>>
    /\ UNCHANGED <<resv, imgv, patchv, child, child_pid, cterm, cdisp, execd, wstatus,
                   disp, blocked, sigchld_ign, nsent, xzv, argvv>>

(***************************************************************************)
(* main(), after run_app.                                                  *)
(***************************************************************************)
\* a faulty cleanup that never calls remove_tree
RemoveTree_Skipped ==
    /\ Runs("remove_tree")
    /\ Goto("translate")
    /\ UNCHANGED <<resv, imgv, patchv, childv, sigv, xzv, argvv>>

\* remove_tree(m_homedir): a failure is reported and not fatal
RemoveTree ==
    /\ Runs("remove_tree")
    /\ removeCalls' = removeCalls + 1
    /\ tmpdir' \in {"removed", "exists"}
    /\ Goto("translate")
    /\ UNCHANGED <<selfMap, progMap, tarSt, imgv, patchv, childv, sigv, xzv, argvv>>

\* raise(sig) kills the caller when sig is SIGKILL, or is neither blocked nor
\* ignored nor caught
RaiseKills(sig) ==
    \/ sig = SIGKILL
    \/ sig \in CatchSigs /\ sig \notin blocked /\ disp[sig] = "dfl"

\* lines 576-595
Translate ==
    /\ Runs("translate")
    /\ IF WIFEXITED(wstatus)
       THEN /\ pc' = "done"
            /\ term' = [kind |-> "exit", val |-> WEXITSTATUS(wstatus), how |-> "return"]
            /\ UNCHANGED <<errmsg, pending, kills>>
       ELSE IF WIFSIGNALED(wstatus) /\ RaiseKills(WTERMSIG(wstatus))
       THEN /\ pc' = "done"
            /\ term' = [kind |-> "signal", val |-> WTERMSIG(wstatus), how |-> "raise"]
            /\ UNCHANGED <<errmsg, pending, kills>>
       ELSE /\ error(2, "Child exited for unknown reason!")
            /\ pending' = IF WIFSIGNALED(wstatus) /\ WTERMSIG(wstatus) \in blocked
                          THEN pending \cup {WTERMSIG(wstatus)} ELSE pending
            /\ kills' = IF /\ WIFSIGNALED(wstatus)
                           /\ WTERMSIG(wstatus) \in CatchSigs \ blocked
                           /\ disp[WTERMSIG(wstatus)] = "handler"
                        THEN kills \cup {<<child_pid, WTERMSIG(wstatus)>>} ELSE kills
    /\ UNCHANGED <<resv, imgv, patchv, childv, disp, blocked, sigchld_ign, nsent, xzv, argvv>>

(***************************************************************************)
(* Decompression adapter: xz_open, xz_read, xz_close over the decoder.     *)
(*                                                                         *)
(* The decoder (xz_dec_run, not part of main.c) is modelled by its         *)
(* interface: a run consumes some of the remaining input, appends some of  *)
(* the remaining content to the output buffer, and returns XZ_STREAM_END   *)
(* in the run that consumes the last of the input with all content out,    *)
(* XZ_OK after any other run that made progress, XZ_OK once and then       *)
(* XZ_BUF_ERROR for runs without progress.                                 *)
(***************************************************************************)
\* one xz_dec_run: the results it can have with i input units consumed and
\* k bytes produced
xz_dec_run(i, k) ==
    IF i = 0 /\ k = 0
    THEN IF xstall THEN "XZ_BUF_ERROR" ELSE "XZ_OK"
    ELSE IF i = xin /\ xpos + k = Len(xD) THEN "XZ_STREAM_END"
    ELSE "XZ_OK"

\* the runs the decoder can make: the last input unit goes only with the
\* last of the content
DecoderRuns ==
    {r \in (0..xin) \X (0..(out_size - out_pos)) :
        /\ xpos + r[2] <= Len(xD)
        /\ (xin > 0 /\ r[1] = xin) => xpos + r[2] = Len(xD)}

xz_open ==
    /\ pc = "tar_open"
    /\ xpc = "closed"
    /\ \/ /\ xpc' = "idle"
          /\ Goto("tar_extract_all")
       \/ /\ error(2, "Failed to initialize xz decoder")
          /\ UNCHANGED xpc
    /\ UNCHANGED <<resv, imgv, patchv, childv, sigv, argvv,
                   xD, xpos, xend, xstall, xin, out, out_pos, out_size, xret,
                   delivered, sawEof>>

\* xz_read, lines 210-213: a pull request for len bytes
xz_read_call ==
    /\ pc = "tar_extract_all"
    /\ xpc = "idle"
    /\ \E len \in 1..MaxReq :
          /\ out' = Fill(len, 0)
          /\ out_size' = len
    /\ out_pos' = 0
    /\ xpc' = "run"
    /\ UNCHANGED <<procv, resv, imgv, patchv, childv, sigv, argvv,
                   xD, xpos, xend, xstall, xin, xret, delivered, sawEof>>

\* a faulty switch that returns len as soon as a run returned XZ_OK
xz_read_switch_OkReturns(xr, pos, size) ==
    CASE xr = "XZ_OK" -> "return len"
      [] xr = "XZ_STREAM_END" -> "return 0"
      [] OTHER -> "fatal"

\* what xz_read does with the result xr of a run that left the buffer filled
\* up to pos: the value it returns, "continue" or "fatal"
xz_read_switch(xr, pos, size) ==
    CASE xr = "XZ_OK" -> IF pos # size THEN "continue" ELSE "return len"
      [] xr = "XZ_STREAM_END" -> "return 0"
      [] OTHER -> "fatal"

\* xz_read, lines 216-234: one pass of the loop, and the return after it
xz_read_loop ==
    /\ pc = "tar_extract_all"
    /\ xpc = "run"
    /\ \E r \in DecoderRuns :
          LET i == r[1]
              k == r[2]
              xr == xz_dec_run(i, k)
              todo == xz_read_switch(xr, out_pos + k, out_size)
              filled == [j \in 1..Len(out) |->
                            IF j > out_pos /\ j <= out_pos + k
                            THEN xD[xpos + (j - out_pos)] ELSE out[j]]
          IN  /\ out' = filled
              /\ out_pos' = out_pos + k
              /\ xpos' = xpos + k
              /\ xin' = xin - i
              /\ xstall' = (i = 0 /\ k = 0)
              /\ xend' = (xend \/ xr = "XZ_STREAM_END")
              /\ CASE todo = "continue" ->
                        /\ xpc' = "run"
                        /\ UNCHANGED <<procv, xret, delivered, sawEof>>
                   [] todo = "return len" ->
                        /\ xpc' = "idle"
                        /\ xret' = out_size
                        /\ delivered' = IF sawEof THEN delivered
                                        ELSE delivered \o SubSeq(filled, 1, out_size)
                        /\ UNCHANGED <<procv, sawEof>>
                   [] todo = "return 0" ->
                        /\ xpc' = "idle"
                        /\ xret' = 0
                        /\ sawEof' = TRUE
                        /\ UNCHANGED <<procv, delivered>>
                   [] OTHER ->
                        /\ xpc' = "shut"
                        /\ error(2, "xz_dec_run returned")
                        /\ UNCHANGED <<xret, delivered, sawEof>>
    /\ UNCHANGED <<resv, imgv, patchv, childv, sigv, argvv, xD, out_size>>

\* xz_close(fd), called by tar_close
xz_close ==
    /\ pc = "tar_extract_all"
    /\ xpc = "idle"
    /\ xpc' = "shut"
    /\ Goto("unmap_self")
    /\ UNCHANGED <<resv, imgv, patchv, childv, sigv, argvv,
                   xD, xpos, xend, xstall, xin, out, out_pos, out_size, xret,
                   delivered, sawEof>>

(***************************************************************************)
(* make_argv, statement by statement.  The vector is a sequence of len      *)
(* slots; a store to a slot outside it is a write outside the allocation,   *)
(* after which the process either goes on or faults.                        *)
(***************************************************************************)
NullPtr == "NULL"

ArgStrings == {"-a", "-b", "file"}

\* prog_path, the argv0 run_app passes
PROG_PATH == "/tmp/staticx-XXXXXX/.staticx.prog"

\* argv[w++] = v
Store(slot, v) ==
    /\ IF slot < Len(new_argv)
       THEN new_argv' = [new_argv EXCEPT ![slot + 1] = v] /\ UNCHANGED beyond
       ELSE beyond' = beyond \cup {slot} /\ UNCHANGED new_argv
    /\ av_w' = av_w + 1

\* int len = 1 + (orig_argc-1) + 1; char **argv = calloc(len, sizeof(char*));
\* int w = 0;
make_argv_alloc ==
    /\ mpc = "entry"
    /\ av_len' = 1 + (orig_argc - 1) + 1
    /\ av_w' = 0
    /\ \/ /\ new_argv' = [k \in 1..av_len' |-> NullPtr]
          /\ alloc_null' = FALSE
       \/ /\ new_argv' = <<>>
          /\ alloc_null' = TRUE
    /\ mpc' = "first"
    /\ UNCHANGED <<procv, resv, imgv, patchv, childv, sigv, xzv,
                   orig_argc, orig_argv, av_i, beyond>>

\* argv[w++] = argv0; and the loop's int i=1
make_argv_first ==
    /\ mpc = "first"
    /\ IF alloc_null
       THEN mpc' = "fault" /\ UNCHANGED <<new_argv, av_w, av_i, beyond>>
       ELSE /\ Store(av_w, PROG_PATH)
            /\ av_i' = 1
            /\ mpc' = "loop"
    /\ UNCHANGED <<procv, resv, imgv, patchv, childv, sigv, xzv,
                   orig_argc, orig_argv, alloc_null, av_len>>

\* for (...; i < orig_argc; i++) argv[w++] = orig_argv[i];
make_argv_loop ==
    /\ mpc = "loop"
    /\ IF av_i < orig_argc
       THEN /\ Store(av_w, orig_argv[av_i + 1])
            /\ av_i' = av_i + 1
            /\ mpc' = "loop"
       ELSE /\ mpc' = "sentinel"
            /\ UNCHANGED <<new_argv, av_w, av_i, beyond>>
    /\ UNCHANGED <<procv, resv, imgv, patchv, childv, sigv, xzv,
                   orig_argc, orig_argv, alloc_null, av_len>>

\* argv[w++] = NULL; a store outside the allocation may fault at once
make_argv_sentinel ==
    /\ mpc = "sentinel"
    /\ Store(av_w, NullPtr)
    /\ \/ mpc' = "assert"
       \/ av_w >= Len(new_argv) /\ mpc' = "fault"
    /\ UNCHANGED <<procv, resv, imgv, patchv, childv, sigv, xzv,
                   orig_argc, orig_argv, alloc_null, av_len, av_i>>

\* assert(w == len); return argv;  (with NDEBUG the assertion is not
\* compiled in)
make_argv_assert ==
    /\ mpc = "assert"
    /\ \/ mpc' = (IF av_w = av_len THEN "returned" ELSE "aborted")
       \/ av_w # av_len /\ mpc' = "returned"
    /\ UNCHANGED <<procv, resv, imgv, patchv, childv, sigv, xzv,
                   orig_argc, orig_argv, new_argv, alloc_null, av_len, av_w, av_i, beyond>>

(***************************************************************************)
(* Images.                                                                 *)
(***************************************************************************)
Phdr(t, o, n) == [p_type |-> t, p_offset |-> o, p_filesz |-> n]

Shdr(nm, t, o, n) == [name |-> nm, sh_type |-> t, sh_offset |-> o, sh_size |-> n]

Dyn(t, v) == [d_tag |-> t, d_val |-> v]

ELFImage(phdrs, shdrs, dyn, bytes) ==
    [e_ident |-> ELFMAG, e_phentsize |-> SizeofPhdr, e_shentsize |-> SizeofShdr,
     phdrs |-> phdrs, shdrs |-> shdrs, dyn |-> dyn, bytes |-> bytes]

\* a target whose PT_INTERP field lies at po with size fs, whose .dynstr lies
\* at so with size ss, and whose .dynamic of dynsz bytes holds dyn
Target(po, fs, so, ss, dyn, dynsz, bytes) ==
    ELFImage(<<Phdr(PT_LOAD, 0, 0), Phdr(PT_INTERP, po, fs)>>,
             <<Shdr("", 0, 0, 0), Shdr(".dynstr", SHT_STRTAB, so, ss),
               Shdr(".dynamic", SHT_DYNAMIC, 0, dynsz)>>,
             dyn, bytes)

RpathDyn(dv) == <<Dyn(DT_NEEDED, 0), Dyn(DT_RPATH, dv), Dyn(DT_NULL, 0)>>

\* a target as the archive producer builds it: an interpreter field of isz
\* bytes at 0, then a .dynstr holding an empty string and a placeholder RPATH
\* of rlen characters
BuiltTarget(isz, rlen) ==
    Target(0, isz, isz, rlen + 2, RpathDyn(1), 3 * SizeofDyn,
           Fill(isz - 1, 1) \o <<0, 0>> \o Fill(rlen, 1) \o <<0>>)

\* img with one thing wrong
Defects(img) ==
    {[img EXCEPT !.e_ident = <<127, 69, 76, 0>>],
     [img EXCEPT !.e_ident = <<0, 69, 76, 70>>],
     [img EXCEPT !.e_phentsize = 32],
     [img EXCEPT !.e_shentsize = 40],
     [img EXCEPT !.phdrs = <<Phdr(PT_LOAD, 0, 0)>>],
     [img EXCEPT !.shdrs = <<img.shdrs[1], img.shdrs[2]>>],
     [img EXCEPT !.shdrs = <<img.shdrs[1], img.shdrs[3]>>],
     [img EXCEPT !.dyn = <<Dyn(DT_NEEDED, 0), Dyn(DT_NULL, 0)>>],
     [img EXCEPT !.bytes = [img.bytes EXCEPT ![img.phdrs[2].p_filesz] = 1]]}

\* the targets of Spec: built with enough room, with exactly enough, with one
\* byte too little in either field, or defective
RunTargets ==
    {BuiltTarget(40, 24), BuiltTarget(36, 19), BuiltTarget(35, 19), BuiltTarget(36, 18)}
    \cup Defects(BuiltTarget(36, 19))

\* a small image that patches: "a" in an interpreter field of 2 bytes at 0,
\* "a" as RPATH in a .dynstr of 2 bytes at 2
SmallGood ==
    Target(0, 2, 2, 2, RpathDyn(0), 3 * SizeofDyn, <<1, 0, 1, 0>> \o Fill(ImgLen - 4, 0))

\* the targets of SpecPatch: every layout and content within the bounds, the
\* defects of one good image, and every small dynamic table with every
\* section size around it
IsPatchTarget(t) ==
    \/ \E po \in 0..ImgLen, fs \in 0..MaxFilesz, so \in 0..MaxDynstrOff,
          ss \in 0..MaxDynstrSz, dv \in 0..(MaxDynstrSz + 1),
          b \in [1..ImgLen -> {0, 1}] :
          t = Target(po, fs, so, ss, RpathDyn(dv), 3 * SizeofDyn, b)
    \/ t \in Defects(SmallGood)
    \/ \E d \in [1..MaxDyn -> [d_tag : {DT_NULL, DT_NEEDED, DT_RPATH}, d_val : {0, 1}]],
          n \in {SizeofDyn * k : k \in 0..(MaxDyn + 1)} \cup {SizeofDyn + 8} :
          t = Target(0, 2, 2, 2, d, n, SmallGood.bytes)

NewStrings == {Fill(n, 2) : n \in 0..MaxNew}

\* the launcher itself: .staticx.archive among its sections
SelfImage ==
    ELFImage(<<Phdr(PT_LOAD, 0, 0)>>,
             <<Shdr("", 0, 0, 0), Shdr(".text", SHT_PROGBITS, 0, 0),
               Shdr(ARCHIVE_SECTION, SHT_PROGBITS, 0, 0)>>,
             <<>>, <<>>)

SelfImages ==
    {SelfImage,
     [SelfImage EXCEPT !.e_ident = <<127, 69, 0, 70>>],
     [SelfImage EXCEPT !.e_shentsize = 40],
     [SelfImage EXCEPT !.shdrs = <<SelfImage.shdrs[1], SelfImage.shdrs[2]>>]}

(***************************************************************************)
(* Initial states and specifications.                                      *)
(***************************************************************************)
NoChild ==
    /\ child = "none"
    /\ child_pid = 0
    /\ cterm = [kind |-> "none", val |-> 0]
    /\ cdisp = [s \in CatchSigs |-> "dfl"]
    /\ execd = "none"
    /\ wstatus = 0
    /\ wret = "none"

NoSignals ==
    /\ pending = {}
    /\ nsent = 0
    /\ kills = {}

DefaultSignals ==
    /\ disp = [s \in CatchSigs |-> "dfl"]
    /\ blocked = {}
    /\ sigchld_ign = FALSE

Unpatched ==
    /\ patched = {}
    /\ written = {}
    /\ oob = FALSE

XzUnused ==
    /\ xD = <<>>
    /\ xpos = 0
    /\ xend = FALSE
    /\ xstall = FALSE
    /\ xin = 0
    /\ xpc = "closed"
    /\ out = <<>>
    /\ out_pos = 0
    /\ out_size = 0
    /\ xret = -1
    /\ delivered = <<>>
    /\ sawEof = FALSE

ArgvUnused ==
    /\ orig_argc = 1
    /\ orig_argv = <<"staticx">>
    /\ new_argv = <<>>
    /\ alloc_null = FALSE
    /\ av_len = 0
    /\ av_w = 0
    /\ av_i = 0
    /\ beyond = {}
    /\ mpc = "unused"

\* the launcher is started: any of its inherited dispositions and mask
Init ==
    /\ pc = "create_tmpdir"
    /\ term = NoTerm
    /\ errmsg = ""
    /\ tmpdir = "none"
    /\ removeCalls = 0
    /\ selfMap = "unmapped"
    /\ progMap = "unmapped"
    /\ tarSt = "none"
    /\ self \in SelfImages
    /\ tgt \in RunTargets
    /\ tgt0 = tgt
    /\ new_interp = path_join(HomeDir, INTERP_FILENAME)
    /\ new_rpath = HomeDir
    /\ Unpatched
    /\ NoChild
    /\ \E ign \in SUBSET CatchSigs, blk \in SUBSET CatchSigs :
          /\ Cardinality(ign \cup blk) <= MaxInitNonDefault
          /\ disp = [s \in CatchSigs |-> IF s \in ign THEN "ign" ELSE "dfl"]
          /\ blocked = blk
    /\ sigchld_ign \in BOOLEAN
    /\ NoSignals
    /\ XzUnused
    /\ ArgvUnused

Next ==
    \/ create_tmpdir
    \/ extract_map
    \/ tar_open
    \/ tar_extract_all
    \/ tar_close
    \/ unmap_self
    \/ patch_map
    \/ SetInterp
    \/ SetRpath
    \/ patch_unmap
    \/ Fork
    \/ setup_sig_handler(SIGINT, "setup_sigint", "setup_sigterm")
    \/ setup_sig_handler(SIGTERM, "setup_sigterm", "wait")
    \/ WaitReap
    \/ WaitEintr
    \/ WaitFail
    \/ ClearChildPid
    \/ restore_sig_handler(SIGINT, "restore_sigint", "restore_sigterm")
    \/ restore_sig_handler(SIGTERM, "restore_sigterm", "remove_tree")
    \/ RemoveTree
    \/ Translate
    \/ ChildExecv
    \/ ChildExit
    \/ ChildKilled
    \/ SendSignal
    \/ DeliverSignal

Spec == Init /\ [][Next]_vars

\* patch_prog_paths on its own: the state main is in when it calls patch_app
InitPatch ==
    /\ pc = "patch_map"
    /\ term = NoTerm
    /\ errmsg = ""
    /\ tmpdir = "exists"
    /\ removeCalls = 0
    /\ selfMap = "released"
    /\ progMap = "unmapped"
    /\ tarSt = "closed"
    /\ self = SelfImage
    /\ IsPatchTarget(tgt)
    /\ tgt0 = tgt
    /\ new_interp \in NewStrings
    /\ new_rpath \in NewStrings
    /\ Unpatched
    /\ NoChild
    /\ DefaultSignals
    /\ NoSignals
    /\ XzUnused
    /\ ArgvUnused

NextPatch ==
    \/ patch_map
    \/ SetInterp
    \/ SetRpath
    \/ patch_unmap

SpecPatch == InitPatch /\ [][NextPatch]_vars

\* the adapter on its own: the state extract_archive is in when it calls
\* tar_open, with any content and any amount of input
InitXz ==
    /\ pc = "tar_open"
    /\ term = NoTerm
    /\ errmsg = ""
    /\ tmpdir = "exists"
    /\ removeCalls = 0
    /\ selfMap = "mapped"
    /\ progMap = "unmapped"
    /\ tarSt = "none"
    /\ self = SelfImage
    /\ tgt = BuiltTarget(36, 19)
    /\ tgt0 = tgt
    /\ new_interp = path_join(HomeDir, INTERP_FILENAME)
    /\ new_rpath = HomeDir
    /\ Unpatched
    /\ NoChild
    /\ DefaultSignals
    /\ NoSignals
    /\ xD \in UNION {[1..n -> {1, 2}] : n \in 0..MaxD}
    /\ xin \in 1..MaxIn
    /\ xpos = 0
    /\ xend = FALSE
    /\ xstall = FALSE
    /\ xpc = "closed"
    /\ out = <<>>
    /\ out_pos = 0
    /\ out_size = 0
    /\ xret = -1
    /\ delivered = <<>>
    /\ sawEof = FALSE
    /\ ArgvUnused

NextXz ==
    \/ xz_open
    \/ xz_read_call
    \/ xz_read_loop
    \/ xz_close

SpecXz == InitXz /\ [][NextXz]_vars

\* the adapter with a caller that, once inside xz_read, keeps running: the
\* loop is straight-line code around xz_dec_run and nothing suspends it
SpecXzFair == InitXz /\ [][NextXz]_vars /\ WF_vars(xz_read_loop)

\* make_argv on its own: the state run_app is in when it calls it, with any
\* argument vector the launcher can be started with
InitArgv ==
    /\ pc = "fork"
    /\ term = NoTerm
    /\ errmsg = ""
    /\ tmpdir = "exists"
    /\ removeCalls = 0
    /\ selfMap = "released"
    /\ progMap = "released"
    /\ tarSt = "closed"
    /\ self = SelfImage
    /\ tgt = BuiltTarget(36, 19)
    /\ tgt0 = tgt
    /\ new_interp = path_join(HomeDir, INTERP_FILENAME)
    /\ new_rpath = HomeDir
    /\ patched = {"interp", "rpath"}
    /\ written = {}
    /\ oob = FALSE
    /\ NoChild
    /\ DefaultSignals
    /\ NoSignals
    /\ XzUnused
    /\ orig_argc \in 0..MaxArgc
    /\ orig_argv \in [1..orig_argc -> ArgStrings \cup {"staticx"}]
    /\ new_argv = <<>>
    /\ alloc_null = FALSE
    /\ av_len = 0
    /\ av_w = 0
    /\ av_i = 0
    /\ beyond = {}
    /\ mpc = "entry"

NextArgv ==
    \/ make_argv_alloc
    \/ make_argv_first
    \/ make_argv_loop
    \/ make_argv_sentinel
    \/ make_argv_assert

SpecArgv == InitArgv /\ [][NextArgv]_vars

(***************************************************************************)
(* Properties.                                                             *)
(***************************************************************************)
\* the launcher ended on its own account: by returning from main, by error(),
\* or by the signal it raised; not by a signal delivered to it from outside
EndedItself == pc = "done" /\ term.how \in {"return", "error", "raise"}

\* C1: when the child that run_app reaped exited with code c, a launcher that
\* ends on its own account ends by returning c from main, after it has called
\* remove_tree; and the wait-status encoding gives back every c in 0..255.
C1_ExitCodeMirrored ==
    /\ \A c \in 0..255 :
          WIFEXITED(W_EXITCODE(c, 0)) /\ WEXITSTATUS(W_EXITCODE(c, 0)) = c
    /\ (EndedItself /\ child = "reaped" /\ cterm.kind = "exit")
          => /\ term = [kind |-> "exit", val |-> cterm.val, how |-> "return"]
             /\ removeCalls = 1

C1_Witness ==
    /\ pc = "done"
    /\ child = "reaped"
    /\ cterm = [kind |-> "exit", val |-> LauncherFailure]
    /\ term = [kind |-> "exit", val |-> LauncherFailure, how |-> "return"]
    /\ removeCalls = 1

\* C2: when the child that run_app reaped was killed by signal s, a launcher
\* that ends on its own account ends killed by the s it raised, whatever
\* dispositions and mask it was started with.
C2_SignalDeathMirrored ==
    (EndedItself /\ child = "reaped" /\ cterm.kind = "signal")
        => term = [kind |-> "signal", val |-> cterm.val, how |-> "raise"]

\* C3: every SIGINT or SIGTERM delivered to the launcher while the child
\* exists and has not ended makes sig_handler call kill(child_pid, s), and
\* does not end the launcher.
C3_SignalForwarded ==
    [][\A s \in FwdSigs :
          (s \in pending /\ s \notin pending' /\ child \in {"born", "running"})
              => (<<ChildPid, s>> \in kills' /\ pc' # "done")]_vars

\* The fields of an image that the patch is about.
InterpPh(img) == img.phdrs[PhdrScan(img.phdrs, PT_INTERP, 1)]

DynstrSh(img) == img.shdrs[ShdrScan(img.shdrs, ".dynstr", SHT_NOT_USED, 1)]

DynamicSh(img) == img.shdrs[ShdrScan(img.shdrs, ".dynamic", SHT_NOT_USED, 1)]

Ndyn(img) == DynamicSh(img).sh_size \div SizeofDyn

RpathVal(img) == img.dyn[DynScan(img.dyn, Ndyn(img), 1, 0)].d_val

RpathOff(img) == DynstrSh(img).sh_offset + RpathVal(img)

\* the image has the program header, the sections and the dynamic entry
HasPatchFields(img) ==
    /\ elf_is_valid(img)
    /\ img.e_phentsize = SizeofPhdr
    /\ img.e_shentsize = SizeofShdr
    /\ PhdrScan(img.phdrs, PT_INTERP, 1) # 0
    /\ ShdrScan(img.shdrs, ".dynamic", SHT_NOT_USED, 1) # 0
    /\ ShdrScan(img.shdrs, ".dynstr", SHT_NOT_USED, 1) # 0
    /\ Ndyn(img) <= Len(img.dyn)
    /\ DynScan(img.dyn, Ndyn(img), 1, 0) # 0

\* a well-formed target: the fields exist, the interpreter field and .dynstr
\* lie inside the image and do not overlap, the interpreter field ends in
\* NUL, and the RPATH is a string inside .dynstr
WellFormed(img) ==
    /\ HasPatchFields(img)
    /\ LET po == InterpPh(img).p_offset
           fs == InterpPh(img).p_filesz
           so == DynstrSh(img).sh_offset
           ss == DynstrSh(img).sh_size
       IN  /\ fs >= 1
           /\ po + fs <= Len(img.bytes)
           /\ ByteAt(img.bytes, po + fs - 1) = NUL
           /\ so + ss <= Len(img.bytes)
           /\ RpathVal(img) < ss
           /\ NulDistance(img.bytes, RpathOff(img)) >= 0
           /\ RpathOff(img) + NulDistance(img.bytes, RpathOff(img)) < so + ss
           /\ (po + fs <= so \/ so + ss <= po)

Fits(img, ni, nr) ==
    /\ InterpPh(img).p_filesz >= Len(ni) + 1
    /\ NulDistance(img.bytes, RpathOff(img)) >= Len(nr)

\* C5: on a well-formed target with room for both strings no check of the
\* patch fails (only the allocation of the path string can), no byte outside
\* the image is touched, and when patch_prog_paths has returned, the bytes at the PT_INTERP
\* offset read as new_interp followed by NUL and the bytes at the .dynstr
\* offset plus the DT_RPATH value read as new_rpath followed by NUL.
C5_PatchRoundTrip ==
    (WellFormed(tgt0) /\ Fits(tgt0, new_interp, new_rpath))
        => /\ errmsg \in {"", "Failed to allocate path string"}
           /\ term.how # "fault"
           /\ ~oob
           /\ pc = "fork" =>
                 /\ ReadStr(tgt.bytes, InterpPh(tgt0).p_offset) = new_interp
                 /\ ByteAt(tgt.bytes, InterpPh(tgt0).p_offset + Len(new_interp)) = NUL
                 /\ ReadStr(tgt.bytes, RpathOff(tgt0)) = new_rpath
                 /\ ByteAt(tgt.bytes, RpathOff(tgt0) + Len(new_rpath)) = NUL

C5_Witness ==
    /\ pc = "fork"
    /\ WellFormed(tgt0)
    /\ Len(new_interp) > 0
    /\ Len(new_rpath) > 0
    /\ ReadStr(tgt.bytes, InterpPh(tgt0).p_offset) = new_interp
    /\ ReadStr(tgt.bytes, RpathOff(tgt0)) = new_rpath
    /\ tgt.bytes # tgt0.bytes

\* C6: while the child exists and is not reaped the directory exists and
\* remove_tree has not been called; remove_tree is called at most once and
\* only after the child was reaped; and a launcher that ends on its own
\* account after reaping the child, whether the child exited or was killed,
\* has called it exactly once.
C6_TmpdirLifetime ==
    /\ child \in {"born", "running", "zombie"} => (tmpdir = "exists" /\ removeCalls = 0)
    /\ removeCalls <= 1
    /\ removeCalls = 1 => child = "reaped"
    /\ tmpdir = "removed" => removeCalls = 1
    /\ (EndedItself /\ child = "reaped") => removeCalls = 1

C6_Witness ==
    /\ pc = "done"
    /\ child = "reaped"
    /\ cterm.kind = "signal"
    /\ term.how = "raise"
    /\ removeCalls = 1
    /\ tmpdir = "removed"

\* C7: (1) the target is mapped only after the archive was extracted, the
\* TAR handle closed and the launcher's own image unmapped; (2) the child
\* exists only after set_interp and set_rpath returned and the target was
\* unmapped; (3) a forwarding handler is installed only after fork succeeded,
\* and never in the child; (4) remove_tree is called only with both handlers
\* back at the default.
C7_PhaseOrdering ==
    /\ progMap # "unmapped" => (selfMap = "released" /\ tarSt = "closed")
    /\ child # "none" => (patched = {"interp", "rpath"} /\ progMap = "released")
    /\ \A s \in CatchSigs :
          /\ disp[s] = "handler" => child # "none"
          /\ cdisp[s] # "handler"
    /\ removeCalls > 0 => \A s \in FwdSigs : disp[s] = "dfl"

C7_Witness ==
    /\ removeCalls = 1
    /\ child = "reaped"
    /\ kills # {}
    /\ progMap = "released"
    /\ selfMap = "released"

\* the conditions extract_archive and patch_prog_paths treat as fatal, stated
\* on the images
SelfFatal(img) ==
    \/ ~elf_is_valid(img)
    \/ img.e_shentsize # SizeofShdr
    \/ ShdrScan(img.shdrs, ARCHIVE_SECTION, SHT_NOT_USED, 1) = 0

TargetFatal(img, ni, nr) ==
    \/ ~HasPatchFields(img)
    \/ /\ InImage(img.bytes, InterpPh(img).p_offset + InterpPh(img).p_filesz - 1)
       /\ ByteAt(img.bytes, InterpPh(img).p_offset + InterpPh(img).p_filesz - 1) # NUL
    \/ (InterpPh(img).p_filesz >= 1 /\ InterpPh(img).p_filesz < Len(ni) + 1)
    \/ RpathVal(img) > DynstrSh(img).sh_size
    \/ /\ NulDistance(img.bytes, RpathOff(img)) >= 0
       /\ NulDistance(img.bytes, RpathOff(img)) < Len(nr)

ExtractionErrors ==
    {"Failed to initialize xz decoder", "tar_open() failed", "xz_dec_run returned",
     "tar_extract_all() failed", "tar_close() failed"}

\* C8: when the launcher's image or the target has one of the fatal
\* conditions, or extraction reports a decode or tar error, no child is ever
\* forked, and a launcher that ends on its own account ends with exit
\* status 2.
C8_FailBeforeExecute ==
    (\/ SelfFatal(self)
     \/ TargetFatal(tgt0, new_interp, new_rpath)
     \/ errmsg \in ExtractionErrors)
        => /\ child = "none"
           /\ child_pid = 0
           /\ EndedItself => term = [kind |-> "exit", val |-> LauncherFailure, how |-> "error"]
           /\ pc \notin {"fork", "setup_sigint", "setup_sigterm", "wait", "clear_pid",
                         "restore_sigint", "restore_sigterm", "remove_tree", "translate"}

C8_Witness ==
    /\ pc = "done"
    /\ errmsg = "Current RPATH too small"
    /\ term = [kind |-> "exit", val |-> LauncherFailure, how |-> "error"]
    /\ child = "none"

\* C9: no byte outside the image is ever read or written: an offset or size
\* that leads outside ends in a fatal error first.
C9_ViewsBoundsChecked == ~oob

\* C10: once a call of xz_read has returned 0, the bytes the calls before it
\* reported as read are exactly the decompressed content.
C10_ChunkingInvariance == sawEof => delivered = xD

\* C11: unless calloc fails, make_argv writes no slot outside the vector it
\* allocated, its assertion w == len does not fail, and the vector it returns
\* has argc+1 slots: the target path, then argv[1..argc-1] in order, then
\* NULL; for every argc from 0 on.
C11_ArgvForwarded ==
    ~alloc_null =>
        /\ beyond = {}
        /\ mpc \notin {"aborted", "fault"}
        /\ mpc = "returned" =>
              /\ av_w = av_len
              /\ Len(new_argv) = orig_argc + 1
              /\ new_argv[1] = PROG_PATH
              /\ \A k \in 1..(orig_argc - 1) : new_argv[k + 1] = orig_argv[k + 1]
              /\ new_argv[orig_argc + 1] = NullPtr

\* C12: a child whose execv failed ends at once with status 3, a code other
\* than the launcher's 2: it has installed no handler and remove_tree is not
\* called while it is unreaped; and a launcher that reaped it and ends on its
\* own account has called remove_tree once and ends by returning 3.
C12_ExecFailure ==
    /\ ExecFailure # LauncherFailure
    /\ execd = "failed" =>
          /\ child \in {"zombie", "reaped"}
          /\ cterm = [kind |-> "exit", val |-> ExecFailure]
          /\ \A s \in CatchSigs : cdisp[s] # "handler"
          /\ child = "zombie" => removeCalls = 0
          /\ (EndedItself /\ child = "reaped")
                => /\ term = [kind |-> "exit", val |-> ExecFailure, how |-> "return"]
                   /\ removeCalls = 1

C12_Witness ==
    /\ execd = "failed"
    /\ pc = "done"
    /\ child = "reaped"
    /\ term = [kind |-> "exit", val |-> ExecFailure, how |-> "return"]
    /\ removeCalls = 1

\* C13: every run of sig_handler, whenever SIGINT or SIGTERM arrives while a
\* forwarding handler is installed, calls kill on the pid of the forked child
\* while that child is not reaped yet: never on pid 0 and never on the pid of
\* a reaped child.
C13_ForwardTargetValid ==
    [][\A s \in FwdSigs :
          (/\ s \in pending \ blocked
           /\ disp[s] = "handler"
           /\ (s \notin pending' \/ \E k \in kills' \ kills : k[2] = s))
              => /\ child_pid = ChildPid
                 /\ child \in {"born", "running", "zombie"}
                 /\ kills' = kills \cup {<<ChildPid, s>>}]_vars

\* run_app has returned from its waitpid loop
PastWait ==
    pc \in {"clear_pid", "restore_sigint", "restore_sigterm", "remove_tree", "translate"}

\* C14: run_app is past its waitpid loop only when waitpid has delivered the
\* status of the child, and wstatus is the status of that child; a waitpid
\* that failed with EINTR is followed by another waitpid, not by a return or
\* an error; the wait error is raised only for another failure, and ends the
\* launcher with exit status 2.
C14_WaitRetry ==
    /\ [](/\ PastWait => (child = "reaped" /\ wstatus = StatusOf(cterm))
          /\ errmsg = "Failed to wait for child process"
                => /\ term = [kind |-> "exit", val |-> LauncherFailure, how |-> "error"]
                   /\ sigchld_ign
                   /\ child # "reaped")
    /\ [][(pc = "wait" /\ wret = "eintr" /\ wret' = "none")
             => (pc' = "wait" /\ term' = term /\ errmsg' = errmsg)]_vars

C14_Witness ==
    /\ pc = "wait"
    /\ wret = "eintr"
    /\ child = "running"
    /\ kills # {}

\* the steps the launcher's own process takes: main's statements and the
\* delivery of a pending signal to it (not the child's steps, and not the
\* arrival of a new signal from outside)
LauncherStep ==
    \/ create_tmpdir
    \/ extract_map
    \/ tar_open
    \/ tar_extract_all
    \/ tar_close
    \/ unmap_self
    \/ patch_map
    \/ SetInterp
    \/ SetRpath
    \/ patch_unmap
    \/ Fork
    \/ setup_sig_handler(SIGINT, "setup_sigint", "setup_sigterm")
    \/ setup_sig_handler(SIGTERM, "setup_sigterm", "wait")
    \/ WaitReap
    \/ WaitEintr
    \/ WaitFail
    \/ ClearChildPid
    \/ restore_sig_handler(SIGINT, "restore_sigint", "restore_sigterm")
    \/ restore_sig_handler(SIGTERM, "restore_sigterm", "remove_tree")
    \/ RemoveTree
    \/ Translate
    \/ DeliverSignal

\* C15: once the child has terminated, a launcher that has not ended can
\* always make progress: some step of its own changes its state, so that
\* under fair scheduling it goes on until it ends, whatever signals arrived
\* and whenever.
C15_LauncherTerminates ==
    (child \in {"zombie", "reaped"} /\ pc # "done") => ENABLED <<LauncherStep>>_vars

\* the two ranges of the target a patch may change: the PT_INTERP field and
\* the old RPATH string with its NUL
InterpField(img) ==
    IF img.e_phentsize = SizeofPhdr /\ PhdrScan(img.phdrs, PT_INTERP, 1) # 0
    THEN InterpPh(img).p_offset..(InterpPh(img).p_offset + InterpPh(img).p_filesz - 1)
    ELSE {}

\* the DT_RPATH entry the scan of the table in the file ends with, 0 for none
FileRpathEntry(img) ==
    IF /\ img.e_shentsize = SizeofShdr
       /\ ShdrScan(img.shdrs, ".dynamic", SHT_NOT_USED, 1) # 0
       /\ ShdrScan(img.shdrs, ".dynstr", SHT_NOT_USED, 1) # 0
    THEN DynScan(img.dyn,
                 IF Ndyn(img) <= Len(img.dyn) THEN Ndyn(img) ELSE Len(img.dyn), 1, 0)
    ELSE 0

OldRpath(img) ==
    IF FileRpathEntry(img) # 0
    THEN LET rpath == DynstrSh(img).sh_offset + img.dyn[FileRpathEntry(img)].d_val
         IN  IF NulDistance(img.bytes, rpath) >= 0
             THEN rpath..(rpath + NulDistance(img.bytes, rpath))
             ELSE rpath..(Len(img.bytes) - 1)
    ELSE {}

\* C16: a patch that stays inside the image, whether it succeeds or fails,
\* leaves the image length as it was and changes no byte outside the
\* PT_INTERP field and the old RPATH string, for every p_filesz from 0 on.
C16_PatchFrame ==
    ~oob =>
        /\ Len(tgt.bytes) = Len(tgt0.bytes)
        /\ written \subseteq InterpField(tgt0) \cup OldRpath(tgt0)
        /\ \A k \in 1..Len(tgt0.bytes) :
              (k - 1) \notin InterpField(tgt0) \cup OldRpath(tgt0)
                  => tgt.bytes[k] = tgt0.bytes[k]

\* C17: set_rpath returns only when the DT_RPATH value is the offset of a
\* byte inside .dynstr, that is when d_val < sh_size; for d_val >= sh_size,
\* the value sh_size included, it fails and has written nothing.
C17_RpathOffsetValidated ==
    (~oob /\ FileRpathEntry(tgt0) # 0)
        => /\ "rpath" \in patched
                 => tgt0.dyn[FileRpathEntry(tgt0)].d_val < DynstrSh(tgt0).sh_size
           /\ (/\ "interp" \in patched
               /\ tgt0.dyn[FileRpathEntry(tgt0)].d_val >= DynstrSh(tgt0).sh_size
               /\ pc # "set_rpath")
                 => /\ errmsg = "RPATH outside of dynamic strtab!"
                    /\ tgt.bytes = strcpy(tgt0.bytes, InterpPh(tgt0).p_offset, new_interp)

\* the entries of the table in the file that lie below the section's entry
\* count and before the first DT_NULL, and the DT_RPATH entries among them
ExaminedPrefix(img) ==
    {k \in 1..Len(img.dyn) :
        /\ k <= Ndyn(img)
        /\ \A j \in 1..k : img.dyn[j].d_tag # DT_NULL}

PrefixRpaths(img) == {k \in ExaminedPrefix(img) : img.dyn[k].d_tag = DT_RPATH}

\* set_interp has returned and set_rpath has ended, on an image with both
\* sections, without an access outside the image
RpathSettled ==
    /\ ~oob
    /\ "interp" \in patched
    /\ pc # "set_rpath"
    /\ tgt0.e_shentsize = SizeofShdr
    /\ ShdrScan(tgt0.shdrs, ".dynamic", SHT_NOT_USED, 1) # 0
    /\ ShdrScan(tgt0.shdrs, ".dynstr", SHT_NOT_USED, 1) # 0

\* C18: the DT_RPATH entry set_rpath uses is one with index below
\* sh_size / sizeof(Elf_Dyn) that precedes the first DT_NULL: what it wrote is
\* new_rpath at the value of such an entry; and when there is no DT_RPATH
\* among those entries it fails with the DT_RPATH error and has written
\* nothing after set_interp.
C18_DynScanPrefix ==
    RpathSettled =>
        LET afterInterp == strcpy(tgt0.bytes, InterpPh(tgt0).p_offset, new_interp)
        IN  /\ PrefixRpaths(tgt0) = {}
                  => /\ errmsg = "Couldn't find DT_RPATH tag"
                     /\ tgt.bytes = afterInterp
                     /\ written = StrcpyRange(InterpPh(tgt0).p_offset, new_interp)
            /\ "rpath" \in patched
                  => \E e \in PrefixRpaths(tgt0) :
                        LET rpath == DynstrSh(tgt0).sh_offset + tgt0.dyn[e].d_val
                        IN  /\ tgt.bytes = strcpy(afterInterp, rpath, new_rpath)
                            /\ written = StrcpyRange(InterpPh(tgt0).p_offset, new_interp)
                                            \cup StrcpyRange(rpath, new_rpath)

\* set_rpath has patched an image that also holds a DT_RPATH after the first
\* DT_NULL, with another value than the one used
C18_Witness ==
    /\ RpathSettled
    /\ "rpath" \in patched
    /\ \E k \in 1..Len(tgt0.dyn) :
          /\ k \notin ExaminedPrefix(tgt0)
          /\ k <= Ndyn(tgt0)
          /\ tgt0.dyn[k].d_tag = DT_RPATH
          /\ \A e \in PrefixRpaths(tgt0) : tgt0.dyn[e].d_val # tgt0.dyn[k].d_val

\* what a returned xz_read call leaves behind
XzReadOutcome ==
    /\ xpc = "idle" =>
          /\ xret \in {-1, 0, out_size}
          /\ xret > 0 => /\ out_pos = out_size
                         /\ out = SubSeq(xD, xpos - out_size + 1, xpos)
          /\ xret = 0 => xend
    /\ errmsg = "xz_dec_run returned"
          => /\ term = [kind |-> "exit", val |-> LauncherFailure, how |-> "error"]
             /\ xpc = "shut"

====
